---- MODULE Spec2Model ----
(***************************************************************************)
(* Branch-and-price core of the capacitated p-median solver: the           *)
(* restriction state kept by the pricer (pricer_cpmp.c), the               *)
(* semi-assignment constraint handler (cons_semiassign.c) and the          *)
(* semi-assignment branching rule (branch_semiassign.c), driven by the     *)
(* node loop of the solving engine.                                        *)
(*                                                                         *)
(* Numbers.  An LP value v is represented by the integer v * Scale, so     *)
(* the values are the multiples of 1/Scale.  The feasibility tolerance of  *)
(* the engine (1e-6) is far below 1/Scale, hence on this grid              *)
(* SCIPisFeasIntegral(v) is "Scale divides v", SCIPisFeasZero(v) is        *)
(* "v = 0" and SCIPisFeasLT(a, b) is "a < b".                              *)
(*                                                                         *)
(* Indices.  Locations and medians are 0 .. NLoc-1 as in the code.         *)
(* Columns, constraints and nodes are kept in sequences, so the column     *)
(* with C index i is vars[i+1]; npropvars is a count and is the same       *)
(* number in both.                                                         *)
(***************************************************************************)
EXTENDS Integers, Sequences, FiniteSets, TLC

\* ---------------------------------------------------------------- bounds
NLoc == 2        \* number of locations of the instance
Scale == 3       \* LP values are multiples of 1/Scale
MaxVars == 2     \* cap on the number of columns priced in
MaxNodes == 6    \* cap on the number of nodes of the search tree

Locations == 0 .. (NLoc - 1)
Positions == 0 .. (NLoc - 1)

VARIABLES
    forbiddenassignments, \* pricerdata->forbiddenassignments[median][location]
    vars,                 \* the columns of the master problem, in creation order
    lpsol,                \* the LP solution under test when the branching rule is
                          \* examined alone (SpecBranch), in units of 1/Scale
    lpcands,              \* the columns with a fractional LP value that the engine
                          \* still has to branch on at the focus node
    conss,                \* the semiassign constraints created so far (SCIP_ConsData)
    scanlog,              \* per constraint: the columns its propagation has examined
    nodes,                \* the nodes of the search tree
    path,                 \* the active path, root first
    pending,              \* the top of the path has to be propagated before its LP
    propresult,           \* *result of the last consPropSemiassign call at this node
    branchresult,         \* *result of the last branchExeclpSemiassign call at this node
    call,                 \* the last direct call of the restriction interface
    probdata,             \* SCIP_ProbData: the instance and the master constraints
    pricing,              \* what the last call of the pricer did
    reader                \* what the call of the file reader did

vars_all == <<forbiddenassignments, vars, lpsol, lpcands, conss, scanlog, nodes,
              path, pending, propresult, branchresult, call, probdata, pricing, reader>>

\* ------------------------------------------------------ numeric predicates
SCIPisFeasIntegral(v) == v % Scale = 0
SCIPisFeasZero(v) == v = 0
SCIPisFeasLT(a, b) == a < b
ABS(x) == IF x < 0 THEN 0 - x ELSE x

\* -------------------------------------------------- restriction interface
NoMask == [median \in Locations |-> FALSE]
Masks == [Locations -> BOOLEAN]
MaskSet(forbidden) == {median \in Locations : forbidden[median]}

\* pricerInitsolCpmp: the matrix is allocated and cleared
pricerInitsolCpmp == [median \in Locations |-> [location \in Locations |-> FALSE]]

\* variant: the entry of every median is overwritten with the mask
ForbidAssignments_Overwrite(fa, location, forbidden) ==
    [median \in Locations |-> [fa[median] EXCEPT ![location] = forbidden[median]]]

SCIPpricerCpmpForbidAssignments(fa, location, forbidden) ==
    [median \in Locations |->
        IF forbidden[median] THEN [fa[median] EXCEPT ![location] = TRUE]
                             ELSE fa[median]]

\* variant: the two indices of the matrix are swapped
AllowAssignments_Swapped(fa, location, forbidden) ==
    [l \in Locations |->
        IF l = location
        THEN [median \in Locations |-> IF forbidden[median] THEN FALSE ELSE fa[l][median]]
        ELSE fa[l]]

SCIPpricerCpmpAllowAssignments(fa, location, forbidden) ==
    [median \in Locations |->
        IF forbidden[median] THEN [fa[median] EXCEPT ![location] = FALSE]
                             ELSE fa[median]]

\* variant: the reader takes the location as the first index
IsAssignmentForbidden_Swapped(fa, median, location) == fa[location][median]

SCIPpricerCpmpIsAssignmentForbidden(fa, median, location) == fa[median][location]

\* ------------------------------------------------------------------ columns
\* SCIPcreateVarData: the data of a column are its median and its member
\* locations; a column of vars carries them and obj, the objective coefficient
\* it was created with
Clusters == [median : Locations, locations : SUBSET Locations \ {{}}]

SCIPvarGetMedian(var) == var.median

SCIPisLocationInCluster(var, location) == location \in var.locations

\* ---------------------------------------------------------------- the tree
Top == path[Len(path)]

OnPath(n) == \E k \in 1 .. Len(path) : path[k] = n

\* local bounds of column i at the current node: the bound changes stored at
\* the nodes of the active path, plus fx, those made in the running call
UbLocalZero(i, fx) == i \in fx \/ \E k \in 1 .. Len(path) : i \in nodes[path[k]].ubzero

LbLocalOne(i) == \E k \in 1 .. Len(path) : i \in nodes[path[k]].lbone

\* the active semiassign constraints, in the order of their activation
RECURSIVE ConssOfPath(_, _)
ConssOfPath(nds, k) ==
    IF k > Len(path) THEN <<>>
    ELSE nds[path[k]].addedconss \o ConssOfPath(nds, k + 1)

ActiveConss == ConssOfPath(nodes, 1)

IsActive(c) == \E k \in 1 .. Len(ActiveConss) : ActiveConss[k] = c

\* ------------------------------------------------------ constraint handler
\* SCIPcreateConsSemiassign
SCIPcreateConsSemiassign(location, forbidden, node) ==
    [location |-> location, forbidden |-> forbidden, node |-> node,
     propagate |-> TRUE, npropvars |-> 0]

\* what is recorded about the scans of a constraint: the columns examined so
\* far, whether one was examined a second time, and the number of scans that
\* examined a column
NoScan == [seen |-> {}, again |-> FALSE, runs |-> 0]

\* inner loop of consPropSemiassign for one constraint; i is the TLA index of
\* the column looked at, fx the columns fixed to zero at the current node so
\* far in this call, seen the columns examined by this loop
\* variant: the members of the column are not looked at
RECURSIVE PropVarsFrom_NoMember(_, _, _, _, _)
PropVarsFrom_NoMember(consdata, i, fx, seen, result) ==
    IF i > Len(vars)
    THEN [i |-> i - 1, fixed |-> fx, seen |-> seen, result |-> result]
    ELSE IF /\ ~UbLocalZero(i, fx)
            /\ consdata.forbidden[SCIPvarGetMedian(vars[i])]
         THEN IF LbLocalOne(i)
              THEN [i |-> i - 1, fixed |-> fx, seen |-> seen \cup {i},
                    result |-> "CUTOFF"]
              ELSE PropVarsFrom_NoMember(consdata, i + 1, fx \cup {i}, seen \cup {i},
                                         "REDUCEDDOM")
         ELSE PropVarsFrom_NoMember(consdata, i + 1, fx, seen \cup {i}, result)

RECURSIVE PropVarsFrom(_, _, _, _, _)
PropVarsFrom(consdata, i, fx, seen, result) ==
    IF i > Len(vars)
    THEN [i |-> i - 1, fixed |-> fx, seen |-> seen, result |-> result]
    ELSE IF /\ ~UbLocalZero(i, fx)
            /\ consdata.forbidden[SCIPvarGetMedian(vars[i])]
            /\ SCIPisLocationInCluster(vars[i], consdata.location)
         THEN IF LbLocalOne(i)
              THEN [i |-> i - 1, fixed |-> fx, seen |-> seen \cup {i},
                    result |-> "CUTOFF"]
              ELSE PropVarsFrom(consdata, i + 1, fx \cup {i}, seen \cup {i},
                                "REDUCEDDOM")
         ELSE PropVarsFrom(consdata, i + 1, fx, seen \cup {i}, result)

\* variant: every scan starts at the first column
PropVars_FromStart(consdata, fx, result) ==
    PropVarsFrom(consdata, 1, fx, {}, result)

PropVars(consdata, fx, result) ==
    PropVarsFrom(consdata, consdata.npropvars + 1, fx, {}, result)

\* outer loop of consPropSemiassign over the constraints handed in
\* variant: the number of columns fixed by the scan is stored as npropvars
RECURSIVE PropConss_CountFixed(_, _, _)
PropConss_CountFixed(cl, k, st) ==
    IF k > Len(cl) \/ st.result = "CUTOFF" THEN st
    ELSE LET c == cl[k]
             consdata == st.conss[c]
         IN  IF consdata.propagate
             THEN LET r == PropVars(consdata, st.fixed, st.result)
                  IN  PropConss_CountFixed(cl, k + 1,
                        [conss |-> [st.conss EXCEPT ![c].propagate = FALSE,
                                                    ![c].npropvars =
                                                        Cardinality(r.fixed \ st.fixed)],
                         scanlog |-> [st.scanlog EXCEPT
                                        ![c].again = @ \/ (r.seen \cap st.scanlog[c].seen # {}),
                                        ![c].seen = @ \cup r.seen,
                                        ![c].runs = IF r.seen = {} THEN @ ELSE @ + 1],
                         fixed |-> r.fixed,
                         result |-> r.result])
             ELSE PropConss_CountFixed(cl, k + 1, st)

\* variant: the loop over the constraints goes on after a cutoff
RECURSIVE PropConss_NoCutoffStop(_, _, _)
PropConss_NoCutoffStop(cl, k, st) ==
    IF k > Len(cl) THEN st
    ELSE LET c == cl[k]
             consdata == st.conss[c]
         IN  IF consdata.propagate
             THEN LET r == PropVars(consdata, st.fixed, st.result)
                  IN  PropConss_NoCutoffStop(cl, k + 1,
                        [conss |-> [st.conss EXCEPT ![c].propagate = FALSE,
                                                    ![c].npropvars = r.i],
                         scanlog |-> [st.scanlog EXCEPT
                                        ![c].again = @ \/ (r.seen \cap st.scanlog[c].seen # {}),
                                        ![c].seen = @ \cup r.seen,
                                        ![c].runs = IF r.seen = {} THEN @ ELSE @ + 1],
                         fixed |-> r.fixed,
                         result |-> r.result])
             ELSE PropConss_NoCutoffStop(cl, k + 1, st)

RECURSIVE PropConss(_, _, _)
PropConss(cl, k, st) ==
    IF k > Len(cl) \/ st.result = "CUTOFF" THEN st
    ELSE LET c == cl[k]
             consdata == st.conss[c]
         IN  IF consdata.propagate
             THEN LET r == PropVars(consdata, st.fixed, st.result)
                  IN  PropConss(cl, k + 1,
                        [conss |-> [st.conss EXCEPT ![c].propagate = FALSE,
                                                    ![c].npropvars = r.i],
                         scanlog |-> [st.scanlog EXCEPT
                                        ![c].again = @ \/ (r.seen \cap st.scanlog[c].seen # {}),
                                        ![c].seen = @ \cup r.seen,
                                        ![c].runs = IF r.seen = {} THEN @ ELSE @ + 1],
                         fixed |-> r.fixed,
                         result |-> r.result])
             ELSE PropConss(cl, k + 1, st)

consPropSemiassign(cl) ==
    PropConss(cl, 1, [conss |-> conss, scanlog |-> scanlog, fixed |-> {},
                      result |-> "DIDNOTFIND"])

\* variant: the flag is set but re-propagation of the node is not requested
consActiveSemiassign_NoReprop(st, c) ==
    LET consdata == st.conss[c]
        needs == consdata.npropvars < Len(vars)
    IN  [conss |-> IF needs THEN [st.conss EXCEPT ![c].propagate = TRUE]
                            ELSE st.conss,
         nodes |-> st.nodes,
         fa |-> SCIPpricerCpmpForbidAssignments(st.fa, consdata.location,
                                                consdata.forbidden)]

\* consActiveSemiassign for constraint c; st carries conss, nodes and the matrix
consActiveSemiassign(st, c) ==
    LET consdata == st.conss[c]
        nvars == Len(vars)
        needs == consdata.npropvars < nvars
    IN  [conss |-> IF needs THEN [st.conss EXCEPT ![c].propagate = TRUE]
                            ELSE st.conss,
         nodes |-> IF needs THEN [st.nodes EXCEPT ![consdata.node].reprop = TRUE]
                            ELSE st.nodes,
         fa |-> SCIPpricerCpmpForbidAssignments(st.fa, consdata.location,
                                                consdata.forbidden)]

\* variant: the pricer is not told to allow the assignments again
consDeactiveSemiassign_NoAllow(st, c) ==
    [conss |-> [st.conss EXCEPT ![c].propagate = FALSE],
     nodes |-> st.nodes,
     fa |-> st.fa]

\* variant: the count of scanned columns is reset
consDeactiveSemiassign_ResetCount(st, c) ==
    [conss |-> [st.conss EXCEPT ![c].propagate = FALSE, ![c].npropvars = 0],
     nodes |-> st.nodes,
     fa |-> SCIPpricerCpmpAllowAssignments(st.fa, st.conss[c].location,
                                           st.conss[c].forbidden)]

\* consDeactiveSemiassign for constraint c
consDeactiveSemiassign(st, c) ==
    LET consdata == st.conss[c]
    IN  [conss |-> [st.conss EXCEPT ![c].propagate = FALSE],
         nodes |-> st.nodes,
         fa |-> SCIPpricerCpmpAllowAssignments(st.fa, consdata.location,
                                               consdata.forbidden)]

\* the engine applies the constraint set change of a node: the constraints
\* added to the node are activated in order, or deactivated in reverse order
RECURSIVE ActivateAll(_, _, _)
ActivateAll(cl, k, st) ==
    IF k > Len(cl) THEN st
    ELSE ActivateAll(cl, k + 1, consActiveSemiassign(st, cl[k]))

RECURSIVE DeactivateAll(_, _, _)
DeactivateAll(cl, k, st) ==
    IF k < 1 THEN st
    ELSE DeactivateAll(cl, k - 1, consDeactiveSemiassign(st, cl[k]))

\* ------------------------------------------------------------ branching rule
\* computeAssignments: assignments[i][j] is the value of median j for location
\* i; every column adds its LP value once for each of its members
\* variant: the value of a column is stored, not added
RECURSIVE AddVars_Overwrite(_, _, _, _, _)
AddVars_Overwrite(vs, sol, v, i, j) ==
    IF v > Len(vs) THEN 0
    ELSE IF \E w \in (v + 1) .. Len(vs) :
                SCIPvarGetMedian(vs[w]) = j /\ i \in vs[w].locations
         THEN AddVars_Overwrite(vs, sol, v + 1, i, j)
         ELSE IF SCIPvarGetMedian(vs[v]) = j /\ i \in vs[v].locations THEN sol[v] ELSE 0

RECURSIVE AddVars(_, _, _, _, _)
AddVars(vs, sol, v, i, j) ==
    IF v > Len(vs) THEN 0
    ELSE (IF SCIPvarGetMedian(vs[v]) = j /\ i \in vs[v].locations THEN sol[v] ELSE 0)
         + AddVars(vs, sol, v + 1, i, j)

computeAssignments(vs, sol) ==
    [i \in Locations |-> [j \in Locations |-> AddVars(vs, sol, 1, i, j)]]

\* SCIPsortDownRealInt(keys, ids, len) for the short arrays used here: an
\* insertion sort by non-increasing key that moves an entry to the left only
\* past strictly smaller keys.  s is a sequence of <<key, id>> pairs.
RECURSIVE ShiftLeft(_, _, _)
ShiftLeft(s, j, item) ==
    IF j > 1 /\ item[1] > s[j - 1][1]
    THEN ShiftLeft(s, j - 1, item)
    ELSE SubSeq(s, 1, j - 1) \o <<item>> \o SubSeq(s, j, Len(s))

RECURSIVE InsertFrom(_, _, _)
InsertFrom(keys, i, s) ==
    IF i = NLoc THEN s
    ELSE InsertFrom(keys, i + 1, ShiftLeft(s, i + 1, <<keys[i], i>>))

SCIPsortDownRealInt(keys) ==
    LET s == InsertFrom(keys, 0, <<>>)
    IN  [keys |-> [k \in Positions |-> s[k + 1][1]],
         ids |-> [k \in Positions |-> s[k + 1][2]]]

\* variant: the rows are left in the order of the median indices
sortMedians_Unsorted(assignments) ==
    [i \in Locations |-> [keys |-> assignments[i], ids |-> [k \in Positions |-> k]]]

\* sortMedians: every row of assignments is sorted in place, and sortedids[i]
\* (the identity before) is permuted along with it
sortMedians(assignments) ==
    [i \in Locations |-> SCIPsortDownRealInt(assignments[i])]

\* the median loop of chooseLocation over one row of the (sorted) matrix;
\* tot and half are in units of 1/Scale
RECURSIVE FracLoop(_, _, _)
FracLoop(row, median, acc) ==
    IF median = NLoc THEN acc
    ELSE IF ~SCIPisFeasIntegral(row[median])
         THEN FracLoop(row, median + 1,
                [nfracmedians |-> acc.nfracmedians + 1,
                 totfrac |-> acc.totfrac + row[median],
                 halffrac |-> IF median % 2 = 0 THEN acc.halffrac + row[median]
                                                ELSE acc.halffrac])
         ELSE FracLoop(row, median + 1, acc)

\* variant: the total is not halved
FracDiff_NoHalf(acc) == ABS(2 * acc.halffrac - 2 * acc.totfrac)

\* ABS(halffrac - 0.5 * totfrac), in units of 1/(2*Scale)
FracDiff(acc) == ABS(2 * acc.halffrac - acc.totfrac)

\* SCIPinfinity(scip) on the grid: above every value FracDiff can take
SCIPinfinity == 2 * Scale * NLoc * (NLoc * NLoc + MaxVars) + 1

\* the location loop of chooseLocation; the result is the location, or -1
RECURSIVE LocationLoop(_, _, _)
LocationLoop(assignments, i, st) ==
    IF i = NLoc THEN st.location
    ELSE LET acc == FracLoop(assignments[i], 0,
                      [nfracmedians |-> 0, totfrac |-> 0, halffrac |-> 0])
         IN  IF \/ acc.nfracmedians > st.maxnfracmedians
                \/ /\ acc.nfracmedians > 0
                   /\ acc.nfracmedians = st.maxnfracmedians
                   /\ SCIPisFeasLT(FracDiff(acc), st.minfracdiff)
             THEN LocationLoop(assignments, i + 1,
                    [location |-> i, maxnfracmedians |-> acc.nfracmedians,
                     minfracdiff |-> FracDiff(acc)])
             ELSE LocationLoop(assignments, i + 1, st)

\* variant: a location needs more than one fractional median to be chosen
chooseLocation_MoreThanOne(assignments) ==
    LocationLoop(assignments, 0,
        [location |-> -1, maxnfracmedians |-> 1, minfracdiff |-> 0])

chooseLocation(assignments) ==
    LocationLoop(assignments, 0,
        [location |-> -1, maxnfracmedians |-> 0, minfracdiff |-> SCIPinfinity])

\* variant: medians already forbidden for the location are not skipped
RECURSIVE ForbidLoop_NoSkip(_, _, _, _, _)
ForbidLoop_NoSkip(fa, sortedids, location, i, st) ==
    IF i = NLoc THEN st
    ELSE IF i % 2 = 1
         THEN ForbidLoop_NoSkip(fa, sortedids, location, i + 1,
                [leftforbidden |-> [st.leftforbidden EXCEPT ![sortedids[i]] = FALSE],
                 rightforbidden |-> [st.rightforbidden EXCEPT ![sortedids[i]] = TRUE]])
         ELSE ForbidLoop_NoSkip(fa, sortedids, location, i + 1,
                [leftforbidden |-> [st.leftforbidden EXCEPT ![sortedids[i]] = TRUE],
                 rightforbidden |-> [st.rightforbidden EXCEPT ![sortedids[i]] = FALSE]])

\* variant: every candidate is forbidden in the left child
RECURSIVE ForbidLoop_LeftOnly(_, _, _, _, _)
ForbidLoop_LeftOnly(fa, sortedids, location, i, st) ==
    IF i = NLoc THEN st
    ELSE IF SCIPpricerCpmpIsAssignmentForbidden(fa, sortedids[i], location)
         THEN ForbidLoop_LeftOnly(fa, sortedids, location, i + 1, st)
         ELSE ForbidLoop_LeftOnly(fa, sortedids, location, i + 1,
                [leftforbidden |-> [st.leftforbidden EXCEPT ![sortedids[i]] = TRUE],
                 rightforbidden |-> [st.rightforbidden EXCEPT ![sortedids[i]] = FALSE]])

\* the median loop of performBranching: position i of the sorted ids goes to
\* the left array when i is even and to the right array when i is odd, unless
\* the median is already forbidden for the location
RECURSIVE ForbidLoop(_, _, _, _, _)
ForbidLoop(fa, sortedids, location, i, st) ==
    IF i = NLoc THEN st
    ELSE IF SCIPpricerCpmpIsAssignmentForbidden(fa, sortedids[i], location)
         THEN ForbidLoop(fa, sortedids, location, i + 1, st)
         ELSE IF i % 2 = 1
              THEN ForbidLoop(fa, sortedids, location, i + 1,
                     [leftforbidden |-> [st.leftforbidden EXCEPT ![sortedids[i]] = FALSE],
                      rightforbidden |-> [st.rightforbidden EXCEPT ![sortedids[i]] = TRUE]])
              ELSE ForbidLoop(fa, sortedids, location, i + 1,
                     [leftforbidden |-> [st.leftforbidden EXCEPT ![sortedids[i]] = TRUE],
                      rightforbidden |-> [st.rightforbidden EXCEPT ![sortedids[i]] = FALSE]])

\* the assertion at the head of the median loop of performBranching, over all
\* turns of the loop; assignments is the row of the location as sortMedians
\* left it, and it is indexed with the median ids
BranchingAssertion(assignments, sortedids) ==
    \A i \in Positions :
        \/ ~SCIPisFeasIntegral(assignments[sortedids[i]])
        \/ SCIPisFeasZero(assignments[sortedids[i]])

\* a child node as SCIPcreateChild makes it, with the constraints added to it
NewNode(parent, cl, ubzero, lbone) ==
    [parent |-> parent, status |-> "child", addedconss |-> cl,
     ubzero |-> ubzero, lbone |-> lbone, reprop |-> FALSE]

\* performBranching: two children of the focus node, each with one new
\* semiassign constraint for location
performBranching(sortedids, location) ==
    LET f == ForbidLoop(forbiddenassignments, sortedids, location, 0,
                        [leftforbidden |-> NoMask, rightforbidden |-> NoMask])
        nn == Len(nodes)
        nc == Len(conss)
    IN  /\ nodes' = [nodes EXCEPT ![Top].status = "fork"]
                      \o <<NewNode(Top, <<nc + 1>>, {}, {}),
                           NewNode(Top, <<nc + 2>>, {}, {})>>
        /\ conss' = conss
                      \o <<SCIPcreateConsSemiassign(location, f.leftforbidden, nn + 1),
                           SCIPcreateConsSemiassign(location, f.rightforbidden, nn + 2)>>
        /\ scanlog' = scanlog \o <<NoScan, NoScan>>

\* the sorted matrix and the sorted ids branchExeclpSemiassign works on
SortedOf(vs, sol) == sortMedians(computeAssignments(vs, sol))

SortedKeys(srt) == [i \in Locations |-> srt[i].keys]

\* the engine works on the focus node once it is propagated and not cut off
AtFocus == nodes[Top].status = "focus" /\ ~pending /\ propresult # "CUTOFF"

\* SCIPgetLPBranchCands: the columns whose LP value is fractional
LPBranchCands(sol) == {v \in 1 .. Len(vars) : ~SCIPisFeasIntegral(sol[v])}

\* branchExeclpSemiassign, called by the engine with the LP solution sol of the
\* focus node; when the rule does not branch the engine keeps the solution
branchExeclpSemiassign(sol) ==
    /\ AtFocus
    /\ branchresult = "NONE"
    /\ Len(nodes) + 2 <= MaxNodes
    /\ LET srt == SortedOf(vars, sol)
           location == chooseLocation(SortedKeys(srt))
       IN  IF location = -1
           THEN /\ branchresult' = "DIDNOTFIND"
                /\ lpcands' = LPBranchCands(sol)
                /\ UNCHANGED <<nodes, conss, scanlog>>
           ELSE /\ performBranching(srt[location].ids, location)
                /\ branchresult' = "BRANCHED"
                /\ lpcands' = {}
    /\ UNCHANGED <<forbiddenassignments, vars, lpsol, path, pending, propresult, call,
                   probdata, pricing, reader>>

\* ------------------------------------------------------------- the engine
\* the values a variable that was never assigned can hold when it is read
UninitValues == {0, 1}

\* addColumn: a new column for a cluster is created (bounds [0,1]) with the
\* objective coefficient found in the local variable cost, gets its variable
\* data and is added to the problem as a priced variable.  Nothing is assigned
\* to cost before it is read, and the column is put into no master constraint:
\* both steps are left open in the function.
addColumn(median, locations) ==
    /\ AtFocus
    /\ branchresult = "NONE"
    /\ Len(vars) < MaxVars
    /\ \E cost \in UninitValues :
          vars' = Append(vars, [median |-> median, locations |-> locations,
                                obj |-> cost])
    /\ UNCHANGED <<forbiddenassignments, lpsol, lpcands, conss, scanlog, nodes, path, pending,
                   propresult, branchresult, call,
                   probdata, pricing, reader>>

\* the LP values the engine can return at the current node: within the local
\* bounds of every column
LPValues == {0, 1, Scale - 1, Scale}

LPSolutions ==
    {sol \in [1 .. Len(vars) -> LPValues] :
        \A v \in 1 .. Len(vars) :
            /\ UbLocalZero(v, {}) => sol[v] = 0
            /\ LbLocalOne(v) => sol[v] = Scale}

\* the engine solves the relaxation of the focus node and hands the solution
\* to the branching rule
SolveAndBranch == \E sol \in LPSolutions : branchExeclpSemiassign(sol)

\* the engine runs domain propagation at the top of the path: the handler is
\* called with the active constraints (it is skipped when there is none), and
\* the fixings are stored as bound changes of that node
Propagate ==
    /\ Len(ActiveConss) > 0
    /\ propresult # "CUTOFF"
    /\ branchresult = "NONE"
    /\ LET r == consPropSemiassign(ActiveConss)
       IN  /\ conss' = r.conss
           /\ scanlog' = r.scanlog
           /\ propresult' = r.result
           /\ nodes' = [nodes EXCEPT ![Top].ubzero = @ \cup r.fixed,
                                     ![Top].reprop = FALSE]
    /\ pending' = FALSE
    /\ UNCHANGED <<forbiddenassignments, vars, lpsol, lpcands, path, branchresult, call,
                   probdata, pricing, reader>>

\* the engine moves down to a child n of the top of the path: the node is
\* activated, its constraints get their activation callback; a node that is
\* focused for the first time, or for which re-propagation was requested, is
\* propagated before anything else happens there
EnterNode(n) ==
    /\ nodes[n].parent = Top
    /\ nodes[n].status \in {"child", "fork"}
    /\ nodes[Top].status = "fork"
    /\ ~pending
    /\ propresult # "CUTOFF"
    /\ LET st == ActivateAll(nodes[n].addedconss, 1,
                    [conss |-> conss, nodes |-> nodes, fa |-> forbiddenassignments])
           first == nodes[n].status = "child"
       IN  /\ conss' = st.conss
           /\ forbiddenassignments' = st.fa
           /\ nodes' = [st.nodes EXCEPT ![n].status = IF first THEN "focus" ELSE @]
           /\ path' = Append(path, n)
           /\ pending' = /\ Len(ConssOfPath(nodes, 1) \o nodes[n].addedconss) > 0
                         /\ (first \/ st.nodes[n].reprop)
    /\ propresult' = "NONE"
    /\ branchresult' = "NONE"
    /\ lpcands' = {}
    /\ UNCHANGED <<vars, lpsol, scanlog, call,
                   probdata, pricing, reader>>

\* the engine leaves the top of the path (never the root): its constraints get
\* their deactivation callback; a node left without children, or cut off, is
\* never entered again
LeaveNode ==
    /\ Len(path) > 1
    /\ ~pending \/ propresult = "CUTOFF"
    /\ LET n == Top
           st == DeactivateAll(nodes[n].addedconss, Len(nodes[n].addedconss),
                    [conss |-> conss, nodes |-> nodes, fa |-> forbiddenassignments])
           gone == nodes[n].status = "focus" \/ propresult = "CUTOFF"
       IN  /\ conss' = st.conss
           /\ forbiddenassignments' = st.fa
           /\ nodes' = [st.nodes EXCEPT ![n].status = IF gone THEN "dead" ELSE @]
    /\ path' = SubSeq(path, 1, Len(path) - 1)
    /\ pending' = FALSE
    /\ propresult' = "NONE"
    /\ branchresult' = "NONE"
    /\ lpcands' = {}
    /\ UNCHANGED <<vars, lpsol, scanlog, call,
                   probdata, pricing, reader>>

\* when the branching rule did not branch and column v is fractional in the LP
\* solution, the engine branches on the column itself: v <= 0 in one child and
\* v >= 1 in the other, no semiassign constraint in either
EngineBranchVar(v) ==
    /\ AtFocus
    /\ branchresult = "DIDNOTFIND"
    /\ Len(nodes) + 2 <= MaxNodes
    /\ v \in lpcands
    /\ nodes' = [nodes EXCEPT ![Top].status = "fork"]
                  \o <<NewNode(Top, <<>>, {v}, {}), NewNode(Top, <<>>, {}, {v})>>
    /\ lpcands' = {}
    /\ UNCHANGED <<forbiddenassignments, vars, lpsol, conss, scanlog, path, pending,
                   propresult, branchresult, call,
                   probdata, pricing, reader>>

\* direct calls of the restriction interface with arbitrary arguments; call
\* records the arguments, the medians forbidden for the location before the
\* call, and for an allow call that directly follows the forbid call with the
\* same arguments (undo) the medians forbidden before that forbid call (start)
ForbiddenFor(location) ==
    {m \in Locations :
        SCIPpricerCpmpIsAssignmentForbidden(forbiddenassignments, m, location)}

ForbidCall(location, forbidden) ==
    /\ forbiddenassignments' =
          SCIPpricerCpmpForbidAssignments(forbiddenassignments, location, forbidden)
    /\ call' = [op |-> "forbid", location |-> location, forbidden |-> forbidden,
                before |-> ForbiddenFor(location), undo |-> FALSE, start |-> {}]
    /\ UNCHANGED <<vars, lpsol, lpcands, conss, scanlog, nodes, path, pending,
                   propresult, branchresult,
                   probdata, pricing, reader>>

AllowCall(location, forbidden) ==
    /\ forbiddenassignments' =
          SCIPpricerCpmpAllowAssignments(forbiddenassignments, location, forbidden)
    /\ call' = LET undo == /\ call.op = "forbid"
                            /\ call.location = location
                            /\ call.forbidden = forbidden
                IN  [op |-> "allow", location |-> location, forbidden |-> forbidden,
                     before |-> ForbiddenFor(location), undo |-> undo,
                     start |-> IF undo THEN call.before ELSE {}]
    /\ UNCHANGED <<vars, lpsol, lpcands, conss, scanlog, nodes, path, pending,
                   propresult, branchresult,
                   probdata, pricing, reader>>

\* ------------------------------------------------------------ problem data
\* the instances: p, the distance matrix, the demands and the capacities
DistanceValues == {0, 1}
DemandValues == {1, 2}
CapacityValues == {2, 3}

Instances ==
    [nclusters : 1 .. NLoc,
     distances : [Locations -> [Locations -> DistanceValues]],
     demands : [Locations -> DemandValues],
     capacities : [Locations -> CapacityValues]]

\* a linear constraint lhs <= sum of its columns <= rhs; vars are the indices
\* of the columns it contains, each with coefficient 1
LinearCons(lhs, rhs) == [lhs |-> lhs, rhs |-> rhs, vars |-> {}]

\* variant: exactly nclusters clusters have to be formed
createConstraints_ExactlyP(nclusters) ==
    [serviceconss |-> [i \in Locations |-> LinearCons(1, SCIPinfinity)],
     convconss |-> [i \in Locations |-> LinearCons(0, 1)],
     mediancons |-> LinearCons(nclusters, nclusters)]

\* createConstraints: the master constraints, without any column
createConstraints(nclusters) ==
    [serviceconss |-> [i \in Locations |-> LinearCons(1, SCIPinfinity)],
     convconss |-> [i \in Locations |-> LinearCons(0, 1)],
     mediancons |-> LinearCons(0, nclusters)]

\* SCIPcreateProbCpmp: createProbData copies the instance, createConstraints
\* fills in the constraints
SCIPcreateProbCpmp(instance) ==
    LET c == createConstraints(instance.nclusters)
    IN  [nclusters |-> instance.nclusters,
         distances |-> instance.distances,
         demands |-> instance.demands,
         capacities |-> instance.capacities,
         serviceconss |-> c.serviceconss,
         convconss |-> c.convconss,
         mediancons |-> c.mediancons]

\* ------------------------------------------------------------ file reader
\* An instance file is the sequence of its lines and nl, whether its last line
\* ends with a newline.  A line is kept as the integers that stand at its
\* start: sscanf("%d %d") and the strtol loops convert numbers from the start
\* of the line and stop at the first text that is not a number.
Min(a, b) == IF a < b THEN a ELSE b

\* SCIPfgets at position pos (lines already read): NULL at the end of the
\* file, which leaves the buffer as it was; the end-of-file indicator is set
\* when the read runs into the end of the file
SCIPfgets(file, st) ==
    LET null == st.pos >= Len(file.lines)
    IN  [null |-> null,
         buffer |-> IF null THEN st.buffer ELSE file.lines[st.pos + 1],
         pos |-> IF null THEN st.pos ELSE st.pos + 1,
         eof |-> null \/ (st.pos + 1 = Len(file.lines) /\ ~file.nl)]

\* the values found in an int that was never assigned
UninitSizes == {-1, 0, NLoc}

\* SCIPallocBufferArray(scip, &array, num) fails for a negative size
CanAlloc(num) == num >= 0

\* the header: the line is read and two integers are converted from it; with
\* fewer than two, readerror is set, and nlocations keeps the value garbage
\* when not even one was converted
ReadHeader(file, garbage) ==
    LET g == SCIPfgets(file, [pos |-> 0, buffer |-> <<>>])
        ntokens == Min(Len(g.buffer), 2)
    IN  [pos |-> g.pos, eof |-> g.eof, buffer |-> g.buffer,
         readerror |-> g.null \/ ntokens < 2,
         nlines |-> 1,
         nlocations |-> IF ntokens >= 1 THEN g.buffer[1] ELSE garbage,
         nclusters |-> IF ntokens >= 2 THEN g.buffer[2] ELSE garbage,
         rows |-> <<>>, demands |-> <<>>, capacities |-> <<>>]

\* the loop over the rows of the distance matrix
RECURSIVE ReadDistances(_, _)
ReadDistances(file, st) ==
    IF st.eof \/ st.readerror \/ st.nlines > st.nlocations THEN st
    ELSE LET g == SCIPfgets(file, st)
             nentries == Min(Len(g.buffer), st.nlocations)
             read == [st EXCEPT !.pos = g.pos, !.eof = g.eof, !.buffer = g.buffer,
                                !.readerror = @ \/ g.null,
                                !.rows = Append(@, SubSeq(g.buffer, 1, nentries)),
                                !.nlines = @ + 1]
         IN  IF nentries < st.nlocations
             THEN [read EXCEPT !.readerror = TRUE]
             ELSE ReadDistances(file, read)

\* the line of the demands and the line of the capacities
ReadVector(file, st) ==
    IF ~st.eof /\ ~st.readerror
    THEN LET g == SCIPfgets(file, st)
             nentries == Min(Len(g.buffer), st.nlocations)
         IN  [pos |-> g.pos, eof |-> g.eof, buffer |-> g.buffer,
              readerror |-> g.null \/ nentries < st.nlocations,
              entries |-> SubSeq(g.buffer, 1, nentries)]
    ELSE [pos |-> st.pos, eof |-> st.eof, buffer |-> st.buffer,
          readerror |-> TRUE, entries |-> <<>>]

\* the arrays handed to SCIPcreateProbCpmp
InstanceRead(st) ==
    [nclusters |-> st.nclusters,
     distances |-> [i \in 0 .. (st.nlocations - 1) |->
                      [j \in 0 .. (st.nlocations - 1) |-> st.rows[i + 1][j + 1]]],
     demands |-> [i \in 0 .. (st.nlocations - 1) |-> st.demands[i + 1]],
     capacities |-> [i \in 0 .. (st.nlocations - 1) |-> st.capacities[i + 1]]]

\* what is kept of the call of the reader
NoRead == [op |-> "none", file |-> [lines |-> <<>>, nl |-> FALSE],
           result |-> "NONE", retcode |-> "NONE", created |-> FALSE]

\* no problem has been created
NoProbData == [created |-> FALSE]

\* readerReadCpmp on a file that can be opened; the outcome is the record of
\* the call and the problem data
ReadFile(file, garbage) ==
    LET h == ReadHeader(file, garbage)
        d == ReadDistances(file, h)
        d2 == [d EXCEPT !.readerror = @ \/ d.nlines < d.nlocations + 1]
        dm == ReadVector(file, d2)
        d3 == [d2 EXCEPT !.pos = dm.pos, !.eof = dm.eof, !.buffer = dm.buffer,
                         !.readerror = dm.readerror, !.demands = dm.entries]
        cp == ReadVector(file, d3)
        d4 == [d3 EXCEPT !.readerror = cp.readerror, !.capacities = cp.entries]
    IN  IF ~CanAlloc(h.nlocations)
        THEN [reader |-> [op |-> "read", file |-> file, result |-> "DIDNOTRUN",
                          retcode |-> "SCIP_NOMEMORY", created |-> FALSE],
              probdata |-> NoProbData]
        ELSE IF d4.readerror
        THEN [reader |-> [op |-> "read", file |-> file, result |-> "DIDNOTRUN",
                          retcode |-> "SCIP_READERROR", created |-> FALSE],
              probdata |-> NoProbData]
        ELSE [reader |-> [op |-> "read", file |-> file, result |-> "SUCCESS",
                          retcode |-> "SCIP_OKAY", created |-> TRUE],
              probdata |-> SCIPcreateProbCpmp(InstanceRead(d4))]

readerReadCpmp(file, garbage) ==
    /\ reader.op = "none"
    /\ probdata = NoProbData
    /\ reader' = ReadFile(file, garbage).reader
    /\ probdata' = ReadFile(file, garbage).probdata
    /\ UNCHANGED <<forbiddenassignments, vars, lpsol, lpcands, conss, scanlog, nodes,
                   path, pending, propresult, branchresult, call, pricing>>

\* ------------------------------------------------------------------ pricing
\* what is kept of a call of the pricer: which callback it was, what
\* SCIPisStopped and the knapsack solver answered (nstop, oracle), the medians
\* whose knapsack problem was handed to the solver, the items of each of them,
\* the medians for which a warning was printed, *result and the return code
NoPricing ==
    [op |-> "none", nstop |-> 0, oracle |-> [m \in Locations |-> FALSE],
     called |-> {}, items |-> [m \in Locations |-> {}],
     warnings |-> {}, result |-> "NONE", retcode |-> "NONE"]

\* variant: the loop is left at the first knapsack problem that is not solved
RECURSIVE PricingLoop_AbortOnFailure(_, _, _, _, _)
PricingLoop_AbortOnFailure(fa, median, nstop, success, st) ==
    IF median >= NLoc \/ median >= nstop THEN st
    ELSE LET items == {}
             solved == [st EXCEPT !.called = @ \cup {median},
                                  !.items[median] = items]
         IN  IF success[median]
             THEN PricingLoop_AbortOnFailure(fa, median + 1, nstop, success,
                                             [solved EXCEPT !.result = "SUCCESS"])
             ELSE [solved EXCEPT !.warnings = @ \cup {median}]

\* variant: SCIPisStopped is not asked
RECURSIVE PricingLoop_NoStopCheck(_, _, _, _, _)
PricingLoop_NoStopCheck(fa, median, nstop, success, st) ==
    IF median >= NLoc THEN st
    ELSE LET items == {}
             solved == [st EXCEPT !.called = @ \cup {median},
                                  !.items[median] = items]
         IN  IF success[median]
             THEN PricingLoop_NoStopCheck(fa, median + 1, nstop, success,
                                          [solved EXCEPT !.result = "SUCCESS"])
             ELSE PricingLoop_NoStopCheck(fa, median + 1, nstop, success,
                                          [solved EXCEPT !.warnings = @ \cup {median}])

\* the loop of performPricing over the medians.  nstop is the number of
\* iterations after which SCIPisStopped answers TRUE (NLoc: not in this call);
\* success[median] is what SCIPsolveKnapsackExactly reports for the problem of
\* the median.  The knapsack problem is set up with nitems = 0 whatever fa, the
\* restriction state, holds, and after a solved problem no column is added:
\* both steps are left open in the function.
RECURSIVE PricingLoop(_, _, _, _, _)
PricingLoop(fa, median, nstop, success, st) ==
    IF median >= NLoc \/ median >= nstop THEN st
    ELSE LET items == {}
             solved == [st EXCEPT !.called = @ \cup {median},
                                  !.items[median] = items]
         IN  IF success[median]
             THEN PricingLoop(fa, median + 1, nstop, success,
                              [solved EXCEPT !.result = "SUCCESS"])
             ELSE PricingLoop(fa, median + 1, nstop, success,
                              [solved EXCEPT !.warnings = @ \cup {median}])

\* variant: *result starts as SCIP_SUCCESS
performPricing_StartsWithSuccess(fa, useredcost, nstop, success) ==
    PricingLoop(fa, 0, nstop, success,
        [op |-> IF useredcost THEN "redcost" ELSE "farkas",
         nstop |-> nstop, oracle |-> success,
         called |-> {}, items |-> [m \in Locations |-> {}], warnings |-> {},
         result |-> "SUCCESS", retcode |-> "SCIP_OKAY"])

\* performPricing
performPricing(fa, useredcost, nstop, success) ==
    PricingLoop(fa, 0, nstop, success,
        [op |-> IF useredcost THEN "redcost" ELSE "farkas",
         nstop |-> nstop, oracle |-> success,
         called |-> {}, items |-> [m \in Locations |-> {}], warnings |-> {},
         result |-> "DIDNOTRUN", retcode |-> "SCIP_OKAY"])

\* pricerRedcostCpmp and pricerFarkasCpmp, called by the engine while it solves
\* the relaxation of the focus node
pricerRedcostCpmp(nstop, success) ==
    /\ AtFocus
    /\ branchresult = "NONE"
    /\ pricing' = performPricing(forbiddenassignments, TRUE, nstop, success)
    /\ UNCHANGED <<forbiddenassignments, vars, lpsol, lpcands, conss, scanlog, nodes,
                   path, pending, propresult, branchresult, call, probdata, reader>>

pricerFarkasCpmp(nstop, success) ==
    /\ AtFocus
    /\ branchresult = "NONE"
    /\ pricing' = performPricing(forbiddenassignments, FALSE, nstop, success)
    /\ UNCHANGED <<forbiddenassignments, vars, lpsol, lpcands, conss, scanlog, nodes,
                   path, pending, propresult, branchresult, call, probdata, reader>>

\* ------------------------------------------------------------ specifications
NoCall == [op |-> "none", location |-> 0, forbidden |-> NoMask, before |-> {},
           undo |-> FALSE, start |-> {}]

RootNode ==
    [parent |-> 0, status |-> "focus", addedconss |-> <<>>,
     ubzero |-> {}, lbone |-> {}, reprop |-> FALSE]

\* the instance of the specifications whose operations do not read it
TheInstance ==
    [nclusters |-> NLoc,
     distances |-> [i \in Locations |-> [j \in Locations |-> IF i = j THEN 0 ELSE 1]],
     demands |-> [i \in Locations |-> 1],
     capacities |-> [i \in Locations |-> 2]]

\* the start of solving: no column, no constraint, the root is the focus node
Init ==
    /\ forbiddenassignments = pricerInitsolCpmp
    /\ vars = <<>>
    /\ lpsol = <<>>
    /\ lpcands = {}
    /\ conss = <<>>
    /\ scanlog = <<>>
    /\ nodes = <<RootNode>>
    /\ path = <<1>>
    /\ pending = FALSE
    /\ propresult = "NONE"
    /\ branchresult = "NONE"
    /\ call = NoCall
    /\ probdata = SCIPcreateProbCpmp(TheInstance)
    /\ pricing = NoPricing
    /\ reader = NoRead

Next ==
    \/ \E median \in Locations, locations \in SUBSET Locations \ {{}} :
          addColumn(median, locations)
    \/ SolveAndBranch
    \/ Propagate
    \/ \E v \in 1 .. Len(vars) : EngineBranchVar(v)
    \/ \E n \in 1 .. Len(nodes) : EnterNode(n)
    \/ LeaveNode

Spec == Init /\ [][Next]_vars_all

\* the branching rule alone, on an arbitrary assignment matrix: one column for
\* every (location, median) pair, with an arbitrary LP value
PairVars ==
    [v \in 1 .. NLoc * NLoc |->
        [median |-> (v - 1) % NLoc, locations |-> {(v - 1) \div NLoc}, obj |-> 0]]

InitBranch ==
    /\ forbiddenassignments = pricerInitsolCpmp
    /\ vars = PairVars
    /\ lpsol \in [1 .. NLoc * NLoc -> 0 .. Scale]
    /\ lpcands = {}
    /\ conss = <<>>
    /\ scanlog = <<>>
    /\ nodes = <<RootNode>>
    /\ path = <<1>>
    /\ pending = FALSE
    /\ propresult = "NONE"
    /\ branchresult = "NONE"
    /\ call = NoCall
    /\ probdata = SCIPcreateProbCpmp(TheInstance)
    /\ pricing = NoPricing
    /\ reader = NoRead

NextBranch == branchExeclpSemiassign(lpsol)

SpecBranch == InitBranch /\ [][NextBranch]_vars_all

\* the branching rule on an arbitrary assignment matrix, after assignments
\* have been forbidden through the restriction interface
NextBranchRestr ==
    \/ \E location \in Locations, forbidden \in Masks :
          branchresult = "NONE" /\ ForbidCall(location, forbidden)
    \/ branchExeclpSemiassign(lpsol)

SpecBranchRestr == InitBranch /\ [][NextBranchRestr]_vars_all

\* the branching rule on arbitrary columns with an arbitrary LP solution
ColumnLists == UNION {[1 .. k -> Clusters] : k \in 0 .. MaxVars}

InitAssign ==
    /\ forbiddenassignments = pricerInitsolCpmp
    /\ \E cl \in ColumnLists :
          vars = [v \in 1 .. Len(cl) |->
                     [median |-> cl[v].median, locations |-> cl[v].locations, obj |-> 0]]
    /\ lpsol \in [1 .. Len(vars) -> LPValues]
    /\ lpcands = {}
    /\ conss = <<>>
    /\ scanlog = <<>>
    /\ nodes = <<RootNode>>
    /\ path = <<1>>
    /\ pending = FALSE
    /\ propresult = "NONE"
    /\ branchresult = "NONE"
    /\ call = NoCall
    /\ probdata = SCIPcreateProbCpmp(TheInstance)
    /\ pricing = NoPricing
    /\ reader = NoRead

SpecAssign == InitAssign /\ [][NextBranch]_vars_all

\* the branching rule on an arbitrary assignment row of location 0, after
\* medians have been forbidden for it; every other location is assigned to
\* itself with value 1
InitBranchRow ==
    /\ forbiddenassignments = pricerInitsolCpmp
    /\ vars = PairVars
    /\ \E row \in [Locations -> 0 .. Scale] :
          lpsol = [v \in 1 .. NLoc * NLoc |->
                      IF vars[v].locations = {0} THEN row[vars[v].median]
                      ELSE IF vars[v].locations = {vars[v].median} THEN Scale ELSE 0]
    /\ lpcands = {}
    /\ conss = <<>>
    /\ scanlog = <<>>
    /\ nodes = <<RootNode>>
    /\ path = <<1>>
    /\ pending = FALSE
    /\ propresult = "NONE"
    /\ branchresult = "NONE"
    /\ call = NoCall
    /\ probdata = SCIPcreateProbCpmp(TheInstance)
    /\ pricing = NoPricing
    /\ reader = NoRead

NextBranchRow ==
    \/ \E forbidden \in Masks : branchresult = "NONE" /\ ForbidCall(0, forbidden)
    \/ branchExeclpSemiassign(lpsol)

SpecBranchRow == InitBranchRow /\ [][NextBranchRow]_vars_all

\* the restriction interface alone, called with arbitrary arguments
NextRestr ==
    \E location \in Locations, forbidden \in Masks :
        \/ ForbidCall(location, forbidden)
        \/ AllowCall(location, forbidden)

SpecRestr == Init /\ [][NextRestr]_vars_all

\* a problem that has just been created, for any instance
InitProb ==
    /\ forbiddenassignments = pricerInitsolCpmp
    /\ vars = <<>>
    /\ lpsol = <<>>
    /\ lpcands = {}
    /\ conss = <<>>
    /\ scanlog = <<>>
    /\ nodes = <<RootNode>>
    /\ path = <<1>>
    /\ pending = FALSE
    /\ propresult = "NONE"
    /\ branchresult = "NONE"
    /\ call = NoCall
    /\ \E instance \in Instances : probdata = SCIPcreateProbCpmp(instance)
    /\ pricing = NoPricing
    /\ reader = NoRead

\* the pricer on a problem created for any p, demands and capacities: the
\* engine calls it with any outcome of the knapsack solver and of SCIPisStopped
PricingInit ==
    /\ forbiddenassignments = pricerInitsolCpmp
    /\ vars = <<>>
    /\ lpsol = <<>>
    /\ lpcands = {}
    /\ conss = <<>>
    /\ scanlog = <<>>
    /\ nodes = <<RootNode>>
    /\ path = <<1>>
    /\ pending = FALSE
    /\ propresult = "NONE"
    /\ branchresult = "NONE"
    /\ call = NoCall
    /\ \E p \in 1 .. NLoc, d \in [Locations -> DemandValues],
          c \in [Locations -> CapacityValues] :
          probdata = SCIPcreateProbCpmp([TheInstance EXCEPT !.nclusters = p,
                                                            !.demands = d,
                                                            !.capacities = c])
    /\ pricing = NoPricing
    /\ reader = NoRead

NextPricing ==
    \/ \E nstop \in 0 .. NLoc, success \in [Locations -> BOOLEAN] :
          pricerRedcostCpmp(nstop, success)
    \/ \E nstop \in 0 .. NLoc, success \in [Locations -> BOOLEAN] :
          pricerFarkasCpmp(nstop, success)

SpecPricing == PricingInit /\ [][NextPricing]_vars_all

\* the pricer under any restriction state: the restriction interface is called
\* with arbitrary arguments between the calls of the pricer
NextPricingRestr ==
    \/ \E location \in Locations, forbidden \in Masks : ForbidCall(location, forbidden)
    \/ \E location \in Locations, forbidden \in Masks : AllowCall(location, forbidden)
    \/ NextPricing

SpecPricingRestr == Init /\ [][NextPricingRestr]_vars_all

\* the pricer called while the problem has columns
NextPricingCols ==
    \/ \E median \in Locations, locations \in SUBSET Locations \ {{}} :
          addColumn(median, locations)
    \/ NextPricing

SpecPricingCols == Init /\ [][NextPricingCols]_vars_all

\* the files read: a header line with no, one or two integers (the number of
\* locations is NLoc), and up to NLoc + 2 further lines, each with too few,
\* just enough or more than enough integers, possibly a negative one
Ones(k) == [j \in 1 .. k |-> 1]

HeaderLines == {<<>>, <<NLoc>>} \cup {<<NLoc, p>> : p \in 1 .. NLoc}

DataLines ==
    {<<>>, Ones(NLoc - 1), Ones(NLoc), Ones(NLoc + 1),
     [Ones(NLoc) EXCEPT ![1] = -1]}

Files ==
    [lines : {<<>>} \cup
             {<<h>> \o d : h \in HeaderLines,
                           d \in UNION {[1 .. k -> DataLines] : k \in 0 .. (NLoc + 2)}},
     nl : BOOLEAN]

\* before a file is read there is no problem; the engine solves, and calls the
\* pricer, only once a problem has been created
InitReader ==
    /\ forbiddenassignments = pricerInitsolCpmp
    /\ vars = <<>>
    /\ lpsol = <<>>
    /\ lpcands = {}
    /\ conss = <<>>
    /\ scanlog = <<>>
    /\ nodes = <<RootNode>>
    /\ path = <<1>>
    /\ pending = FALSE
    /\ propresult = "NONE"
    /\ branchresult = "NONE"
    /\ call = NoCall
    /\ probdata = NoProbData
    /\ pricing = NoPricing
    /\ reader = NoRead

NextReader ==
    \/ \E file \in Files, garbage \in UninitSizes : readerReadCpmp(file, garbage)
    \/ \E nstop \in 0 .. NLoc, success \in [Locations -> BOOLEAN] :
          probdata # NoProbData /\ pricerRedcostCpmp(nstop, success)
    \/ \E nstop \in 0 .. NLoc, success \in [Locations -> BOOLEAN] :
          probdata # NoProbData /\ pricerFarkasCpmp(nstop, success)

SpecReader == InitReader /\ [][NextReader]_vars_all

\* columns added to a problem that has just been created, for any instance
NextMaster ==
    \E median \in Locations, locations \in SUBSET Locations \ {{}} :
        addColumn(median, locations)

SpecMaster == InitProb /\ [][NextMaster]_vars_all

\* one call of consPropSemiassign on any handler state: a path of a root, a
\* child of a branching on column v (v fixed to 0 or to 1 there) and two nodes
\* below it that carry one semiassign constraint each, any columns, and for
\* each constraint any number of columns scanned so far; the propagate flag
\* is set only while unscanned columns exist, the scanned columns that match
\* a constraint are fixed to 0 at its node, and none of them is fixed to 1
\* (the node would have been cut off)
ScannedMatching(consdata, cl) ==
    {i \in 1 .. consdata.npropvars :
        /\ consdata.forbidden[SCIPvarGetMedian(cl[i])]
        /\ SCIPisLocationInCluster(cl[i], consdata.location)}

PropConsData(nvars, node) ==
    {consdata \in [location : Locations, forbidden : Masks, node : {node},
                   propagate : BOOLEAN, npropvars : 0 .. nvars] :
        consdata.propagate => consdata.npropvars < nvars}

InitProp ==
    /\ \E cl \in ColumnLists \ {<<>>} :
          /\ vars = [v \in 1 .. Len(cl) |->
                        [median |-> cl[v].median, locations |-> cl[v].locations, obj |-> 0]]
          /\ \E v \in 1 .. Len(cl), one \in BOOLEAN,
                c1 \in PropConsData(Len(cl), 3), c2 \in PropConsData(Len(cl), 4) :
                /\ one => v \notin ScannedMatching(c1, cl) \cup ScannedMatching(c2, cl)
                /\ conss = <<c1, c2>>
                /\ scanlog = <<[seen |-> 1 .. c1.npropvars, again |-> FALSE,
                                runs |-> IF c1.npropvars > 0 THEN 1 ELSE 0],
                               [seen |-> 1 .. c2.npropvars, again |-> FALSE,
                                runs |-> IF c2.npropvars > 0 THEN 1 ELSE 0]>>
                /\ nodes = <<[RootNode EXCEPT !.status = "fork"],
                             [NewNode(1, <<>>, IF one THEN {} ELSE {v},
                                      IF one THEN {v} ELSE {}) EXCEPT !.status = "fork"],
                             [NewNode(2, <<1>>, ScannedMatching(c1, cl) \ {v}, {})
                                 EXCEPT !.status = "fork"],
                             [NewNode(3, <<2>>, ScannedMatching(c2, cl)
                                                  \ (ScannedMatching(c1, cl) \cup {v}), {})
                                 EXCEPT !.status = "focus"]>>
                /\ forbiddenassignments =
                      SCIPpricerCpmpForbidAssignments(
                          SCIPpricerCpmpForbidAssignments(pricerInitsolCpmp,
                                                          c1.location, c1.forbidden),
                          c2.location, c2.forbidden)
    /\ lpsol = [v \in 1 .. Len(vars) |-> 0]
    /\ lpcands = {}
    /\ path = <<1, 2, 3, 4>>
    /\ pending = TRUE
    /\ propresult = "NONE"
    /\ branchresult = "NONE"
    /\ call = NoCall
    /\ probdata = SCIPcreateProbCpmp(TheInstance)
    /\ pricing = NoPricing
    /\ reader = NoRead

NextProp == Propagate

SpecProp == InitProp /\ [][NextProp]_vars_all

\* ==================================================================== claims
Cons(k) == conss[ActiveConss[k]]

Matches(consdata, var) ==
    consdata.forbidden[var.median] /\ consdata.location \in var.locations

\* C1: in every reachable state R[m][l] is true exactly when some currently
\* active semi-assignment constraint has location l and forbids median m; no
\* bit set by a deactivated constraint remains set.
C1_RestrictionIsUnionOfActive ==
    \A m \in Locations, l \in Locations :
        forbiddenassignments[m][l] <=>
            \E k \in 1 .. Len(ActiveConss) :
                Cons(k).location = l /\ Cons(k).forbidden[m]

\* a constraint of a sibling path was active and is deactivated, its bits are
\* clear, and the constraint of its sibling is active with its bits set
C1_Witness ==
    \E c \in 1 .. Len(conss), d \in 1 .. Len(conss) :
        /\ c # d
        /\ nodes[conss[c].node].parent = nodes[conss[d].node].parent
        /\ nodes[conss[c].node].status \in {"fork", "dead"}
        /\ ~IsActive(c)
        /\ IsActive(d)
        /\ MaskSet(conss[c].forbidden) # {}
        /\ MaskSet(conss[d].forbidden) # {}
        /\ \A m \in MaskSet(conss[c].forbidden) :
              ~forbiddenassignments[m][conss[c].location]
        /\ \A m \in MaskSet(conss[d].forbidden) :
              forbiddenassignments[m][conss[d].location]

\* C2 as stated: allowAssignments(loc, mask) directly after
\* forbidAssignments(loc, mask) leaves isAssignmentForbidden(m, loc) at the
\* value it had before the forbid call, for every median m of the mask.
C2_RoundTripRestoresEveryBit ==
    (call.op = "allow" /\ call.undo) =>
        \A m \in MaskSet(call.forbidden) :
            SCIPpricerCpmpIsAssignmentForbidden(forbiddenassignments, m, call.location)
                = (m \in call.start)

\* C2 amended: after that round trip every median of the mask is allowed for
\* loc; this is the value before the forbid call exactly for the medians of
\* the mask that were not forbidden for loc before the forbid call.
C2_RoundTripRestoresUnforbiddenBits ==
    (call.op = "allow" /\ call.undo) =>
        \A m \in MaskSet(call.forbidden) :
            /\ ~SCIPpricerCpmpIsAssignmentForbidden(forbiddenassignments, m, call.location)
            /\ m \notin call.start =>
                  SCIPpricerCpmpIsAssignmentForbidden(forbiddenassignments, m, call.location)
                      = (m \in call.start)

\* a round trip has been made with a mask of a median that was allowed before
\* and, for the same location, another median stays forbidden throughout
C2_Witness ==
    /\ call.op = "allow"
    /\ call.undo
    /\ \E m \in MaskSet(call.forbidden) : m \notin call.start
    /\ \E m \in Locations \ MaskSet(call.forbidden) :
          m \in call.start /\ forbiddenassignments[m][call.location]

\* C8: forbidding pairs that are all forbidden already, and allowing pairs none
\* of which is forbidden, leaves the whole restriction state unchanged.
C8_DefensiveNoOps ==
    [][(\/ /\ call'.op = "forbid"
           /\ \A m \in MaskSet(call'.forbidden) :
                 forbiddenassignments[m][call'.location]
        \/ /\ call'.op = "allow"
           /\ \A m \in MaskSet(call'.forbidden) :
                 ~forbiddenassignments[m][call'.location])
       => forbiddenassignments' = forbiddenassignments]_vars_all

\* a non-empty mask of medians all forbidden already has been forbidden again,
\* while another median of that location is allowed
C8_Witness ==
    /\ call.op = "forbid"
    /\ MaskSet(call.forbidden) # {}
    /\ MaskSet(call.forbidden) \subseteq call.before
    /\ \E m \in Locations : ~forbiddenassignments[m][call.location]

\* C3: whenever the branching rule branches on a location, the forbidden sets
\* of the left and of the right child constraint are disjoint, neither contains
\* a median already forbidden for that location at branching time, and their
\* union is exactly the set of medians not yet forbidden for that location.
C3_BranchingPartition ==
    [][(branchresult = "NONE" /\ branchresult' = "BRANCHED") =>
          LET nc == Len(conss)
              location == conss'[nc + 1].location
              left == MaskSet(conss'[nc + 1].forbidden)
              right == MaskSet(conss'[nc + 2].forbidden)
              already == {m \in Locations : forbiddenassignments[m][location]}
          IN  /\ left \cap right = {}
              /\ left \cap already = {}
              /\ right \cap already = {}
              /\ left \cup right = Locations \ already]_vars_all

\* a branching on a location for which an active ancestor constraint already
\* forbids a median: the child constraint d was created below the node of c
C3_Witness ==
    \E c \in 1 .. Len(conss), d \in 1 .. Len(conss) :
        /\ nodes[conss[d].node].parent = conss[c].node
        /\ conss[d].location = conss[c].location
        /\ MaskSet(conss[c].forbidden) # {}
        /\ MaskSet(conss[d].forbidden) # {}

\* local upper bound 0 of column i, from the bound changes stored on a path
UbZeroOn(nds, pth, i) == \E k \in 1 .. Len(pth) : i \in nds[pth[k]].ubzero

\* C4: once a propagation call has ended without cutoff, for every active
\* constraint (l, F) it propagated every existing column with median in F and
\* l among its members has upper bound 0 at the node, and the only columns
\* whose bound changed are columns that match a propagated constraint and did
\* not have upper bound 0 before; nothing else about columns changes.
C4_PropagationFixesMatchingColumns ==
    [][(path' = path /\ propresult' \in {"DIDNOTFIND", "REDUCEDDOM"} /\ Propagate) =>
          /\ \A k \in 1 .. Len(ActiveConss) :
                Cons(k).propagate =>
                    \A i \in 1 .. Len(vars) :
                        Matches(Cons(k), vars[i]) => UbZeroOn(nodes', path', i)
          /\ \A i \in 1 .. Len(vars) :
                (UbZeroOn(nodes', path', i) # UbZeroOn(nodes, path, i)) =>
                    /\ ~UbZeroOn(nodes, path, i)
                    /\ \E k \in 1 .. Len(ActiveConss) :
                          Cons(k).propagate /\ Matches(Cons(k), vars[i])
          /\ vars' = vars
          /\ \A n \in 1 .. Len(nodes) :
                /\ nodes'[n].lbone = nodes[n].lbone
                /\ n # Top => nodes'[n].ubzero = nodes[n].ubzero]_vars_all

\* a constraint that scanned columns before has been propagated again without
\* cutoff; a column of its first scan and a column of its second scan match it
C4_Witness ==
    /\ propresult = "REDUCEDDOM"
    /\ \E k \in 1 .. Len(ActiveConss) :
          /\ scanlog[ActiveConss[k]].runs >= 2
          /\ Cons(k).npropvars = Len(vars)
          /\ \A i \in 1 .. Len(vars) : Matches(Cons(k), vars[i])
          /\ \A i \in 1 .. Len(vars) : UbZeroOn(nodes, path, i)

\* C5: a constraint never examines a column it has examined before: each scan
\* starts behind the columns scanned so far (the columns examined are always
\* the first npropvars ones, plus the column a cutoff stopped at); and a
\* constraint that is re-activated while no column was added since its last
\* scan gets neither its propagate flag set nor re-propagation requested.
C5_ScannedColumns ==
    \A c \in 1 .. Len(conss) :
        /\ ~scanlog[c].again
        /\ \/ scanlog[c].seen = 1 .. conss[c].npropvars
           \/ /\ scanlog[c].seen = 1 .. (conss[c].npropvars + 1)
              /\ nodes[conss[c].node].status = "dead" \/ propresult = "CUTOFF"

C5_Reactivation ==
    \A n \in 1 .. Len(nodes) :
        (Len(path') = Len(path) + 1 /\ EnterNode(n) /\ nodes[n].status = "fork") =>
            \A k \in 1 .. Len(nodes[n].addedconss) :
                LET c == nodes[n].addedconss[k]
                IN  conss[c].npropvars = Len(vars) =>
                        /\ ~conss'[c].propagate
                        /\ ~nodes'[n].reprop
                        /\ ~pending'

C5_IncrementalScanning == [](C5_ScannedColumns) /\ [][C5_Reactivation]_vars_all

\* a constraint has made two scans that each examined a column
C5_Witness ==
    \E c \in 1 .. Len(conss) :
        /\ scanlog[c].runs >= 2
        /\ Cardinality(scanlog[c].seen) >= 2
        /\ conss[c].npropvars = Len(vars)

\* C6: whenever a constraint becomes active while columns exist that it has
\* not scanned, its propagate flag is set and re-propagation of its node is
\* requested, the node is propagated before anything else happens there, and
\* no relaxation is solved while an active constraint has its flag set.
C6_Activation ==
    \A n \in 1 .. Len(nodes) :
        (Len(path') = Len(path) + 1 /\ EnterNode(n)) =>
            \A k \in 1 .. Len(nodes[n].addedconss) :
                LET c == nodes[n].addedconss[k]
                IN  conss[c].npropvars < Len(vars) =>
                        /\ conss'[c].propagate
                        /\ nodes'[conss[c].node].reprop
                        /\ conss[c].node = n
                        /\ pending'

C6_SolveAfterPropagation ==
    (branchresult = "NONE" /\ branchresult' # "NONE") =>
        \A k \in 1 .. Len(ActiveConss) : ~Cons(k).propagate

C6_PropagateBeforeResolve ==
    [][C6_Activation /\ C6_SolveAfterPropagation]_vars_all

\* a constraint that scanned a column before is active again, a column was
\* added since, its flag is set and re-propagation of its node is requested
C6_Witness ==
    \E k \in 1 .. Len(ActiveConss) :
        /\ Cons(k).npropvars >= 1
        /\ Cons(k).npropvars < Len(vars)
        /\ Cons(k).propagate
        /\ nodes[Cons(k).node].reprop
        /\ pending

\* C7: deactivating a constraint (l, F) sets R[m][l] to false for every m in F
\* and clears its propagate flag, and changes nothing else: no column and no
\* stored bound change is modified, its scanned-column count is unchanged, the
\* other constraints are unchanged, and so are the R entries of other
\* locations and of medians outside F.
C7_Deactivation ==
    (Len(path') = Len(path) - 1 /\ LeaveNode) =>
        LET cl == nodes[Top].addedconss
            mine(m, l) == \E k \in 1 .. Len(cl) :
                              conss[cl[k]].location = l /\ conss[cl[k]].forbidden[m]
        IN  /\ \A m \in Locations, l \in Locations :
                  forbiddenassignments'[m][l] =
                      IF mine(m, l) THEN FALSE ELSE forbiddenassignments[m][l]
            /\ \A c \in 1 .. Len(conss) :
                  conss'[c] = IF \E k \in 1 .. Len(cl) : cl[k] = c
                              THEN [conss[c] EXCEPT !.propagate = FALSE]
                              ELSE conss[c]
            /\ Len(conss') = Len(conss)
            /\ vars' = vars
            /\ Len(nodes') = Len(nodes)
            /\ \A n \in 1 .. Len(nodes) :
                  /\ nodes'[n].ubzero = nodes[n].ubzero
                  /\ nodes'[n].lbone = nodes[n].lbone

C7_DeactivationEffect == [][C7_Deactivation]_vars_all

\* a constraint that had fixed a column at its node has been deactivated: its
\* bits are clear, the bound change is still stored, its count is kept
C7_Witness ==
    \E c \in 1 .. Len(conss) :
        /\ ~IsActive(c)
        /\ nodes[conss[c].node].status \in {"fork", "dead"}
        /\ conss[c].npropvars >= 1
        /\ nodes[conss[c].node].ubzero # {}
        /\ MaskSet(conss[c].forbidden) # {}
        /\ \A m \in MaskSet(conss[c].forbidden) :
              ~forbiddenassignments[m][conss[c].location]
        /\ \E m \in Locations, l \in Locations : forbiddenassignments[m][l]

\* the assignment value of median j for location i under an LP solution: the
\* sum of the values of the columns with median j that contain i
RECURSIVE SumOver(_, _)
SumOver(sol, S) ==
    IF S = {} THEN 0
    ELSE LET v == CHOOSE w \in S : TRUE
         IN  sol[v] + SumOver(sol, S \ {v})

AssignmentValue(sol, i, j) ==
    SumOver(sol, {v \in 1 .. Len(vars) : vars[v].median = j /\ i \in vars[v].locations})

IsFractional(x) == x % Scale # 0

\* C9: the branching rule reports 'did not find' and creates no node and no
\* constraint exactly when no location has a fractional assignment value to
\* any median; otherwise it reports 'branched' and creates exactly two child
\* nodes of the focus node, each carrying exactly one new restriction
\* constraint, both for the same location.
C9_Outcome ==
    (branchresult = "NONE" /\ branchresult' # "NONE") =>
        LET anyfrac == \E i \in Locations, j \in Locations :
                           IsFractional(AssignmentValue(lpsol, i, j))
            nn == Len(nodes)
            nc == Len(conss)
        IN  IF ~anyfrac
            THEN /\ branchresult' = "DIDNOTFIND"
                 /\ nodes' = nodes
                 /\ conss' = conss
            ELSE /\ branchresult' = "BRANCHED"
                 /\ Len(nodes') = nn + 2
                 /\ Len(conss') = nc + 2
                 /\ \A n \in 1 .. nn : nodes'[n].addedconss = nodes[n].addedconss
                 /\ \A c \in 1 .. nc : conss'[c] = conss[c]
                 /\ \A d \in {1, 2} :
                       /\ nodes'[nn + d].parent = Top
                       /\ nodes'[nn + d].addedconss = <<nc + d>>
                       /\ conss'[nc + d].node = nn + d
                 /\ conss'[nc + 1].location = conss'[nc + 2].location

C9_BranchingOutcome == [][C9_Outcome]_vars_all

\* the rule has branched on a solution in which only one location has a
\* fractional assignment, and only to one median
C9_Witness ==
    /\ branchresult = "BRANCHED"
    /\ Len(nodes) = 3
    /\ Len(conss) = 2
    /\ Cardinality({p \in Locations \X Locations :
                       IsFractional(AssignmentValue(lpsol, p[1], p[2]))}) = 1

\* the quantities of the selection rule for location i under an LP solution.
\* NFrac and TotFrac do not depend on the order of the medians; HalfFrac is
\* taken over the row as the rule looks at it, that is after sortMedians.
Row(sol, i) == [j \in Locations |-> AssignmentValue(sol, i, j)]

NFrac(sol, i) == Cardinality({j \in Locations : IsFractional(Row(sol, i)[j])})

RECURSIVE SumRow(_, _)
SumRow(row, S) ==
    IF S = {} THEN 0
    ELSE LET k == CHOOSE w \in S : TRUE
         IN  row[k] + SumRow(row, S \ {k})

TotFrac(sol, i) ==
    SumRow(Row(sol, i), {j \in Locations : IsFractional(Row(sol, i)[j])})

HalfFrac(sol, i) ==
    LET sorted == SCIPsortDownRealInt(Row(sol, i)).keys
    IN  SumRow(sorted, {k \in Positions : IsFractional(sorted[k]) /\ k % 2 = 0})

\* twice |halffrac - 0.5 * totfrac|
Unevenness(sol, i) == ABS(2 * HalfFrac(sol, i) - TotFrac(sol, i))

\* C10: when at least one location has a fractional assignment, the location
\* chosen for branching has the maximum number of fractionally assigned
\* medians over all locations, and among the locations with that maximum it
\* has the minimum value of |halffrac - 0.5*totfrac|.
C10_Selection ==
    (branchresult = "NONE" /\ branchresult' = "BRANCHED") =>
        LET chosen == conss'[Len(conss) + 1].location
        IN  /\ NFrac(lpsol, chosen) > 0
            /\ \A i \in Locations :
                  /\ NFrac(lpsol, i) <= NFrac(lpsol, chosen)
                  /\ NFrac(lpsol, i) = NFrac(lpsol, chosen) =>
                        Unevenness(lpsol, chosen) <= Unevenness(lpsol, i)

C10_LocationSelection == [][C10_Selection]_vars_all

\* the rule has branched on a location that replaced an earlier location with
\* the same number of fractional medians because it splits more evenly
C10_Witness ==
    /\ branchresult = "BRANCHED"
    /\ Len(conss) = 2
    /\ \E i \in Locations :
          /\ i < conss[1].location
          /\ NFrac(lpsol, i) = NFrac(lpsol, conss[1].location)
          /\ Unevenness(lpsol, conss[1].location) < Unevenness(lpsol, i)

\* ------------------------------------------------------------------ C11
\* halffrac of location i as chooseLocation accumulates it for the solution
\* under test
HalfFracComputed(i) ==
    FracLoop(SortedKeys(SortedOf(vars, lpsol))[i], 0,
             [nfracmedians |-> 0, totfrac |-> 0, halffrac |-> 0]).halffrac

\* the sum of the fractional assignments of location i to the medians whose
\* index is even
HalfFracByIndex(sol, i) ==
    SumRow(Row(sol, i), {j \in Locations : IsFractional(Row(sol, i)[j]) /\ j % 2 = 0})

\* the place (from 0) of median j when the medians of a row are ordered by
\* non-increasing value, equal values by index
Rank(row, j) ==
    Cardinality({k \in Locations : row[k] > row[j] \/ (row[k] = row[j] /\ k < j)})

\* the sum of the fractional assignments of location i to the medians at the
\* even places of that order
HalfFracByRank(sol, i) ==
    SumRow(Row(sol, i), {j \in Locations : /\ IsFractional(Row(sol, i)[j])
                                           /\ Rank(Row(sol, i), j) % 2 = 0})

\* C11 (as claimed): for each location i, the value halffrac[i] used in the
\* tie-break is the sum of assignments[i][j] over the medians j that are
\* fractionally assigned to i and whose median index j is even.
C11_HalfFracOverEvenMedianIndex ==
    branchresult # "NONE" =>
        \A i \in Locations : HalfFracComputed(i) = HalfFracByIndex(lpsol, i)

\* C11 (amended): for each location i, the value halffrac[i] used in the
\* tie-break is the sum of assignments[i][j] over the medians j that are
\* fractionally assigned to i and stand at an even place (0, 2, ...) when the
\* medians of i are ordered by non-increasing assignment value.
C11_HalfFracOverEvenSortedPlace ==
    branchresult # "NONE" =>
        \A i \in Locations : HalfFracComputed(i) = HalfFracByRank(lpsol, i)

\* the rule has run on a solution in which, for some location, the fractional
\* medians of even index are not those at the even places of the sorted row
C11_Witness ==
    /\ branchresult = "BRANCHED"
    /\ \E i \in Locations : HalfFracByIndex(lpsol, i) # HalfFracByRank(lpsol, i)

\* ------------------------------------------------------------------ C12
\* the medians that are candidates for location l (not yet forbidden), and the
\* number (from 1) of candidate j among them in the sorted order of the row
Candidates(l) == {j \in Locations : ~forbiddenassignments[j][l]}

CandidateNumber(sol, l, j) ==
    1 + Cardinality({k \in Candidates(l) : Rank(Row(sol, l), k) < Rank(Row(sol, l), j)})

\* C12: for the chosen location, after the medians are ordered by
\* non-increasing assignment value and the already-forbidden ones are skipped,
\* the 1st, 3rd, 5th ... remaining candidate is forbidden in the left child and
\* the 2nd, 4th, 6th ... in the right child.
C12_Alternation ==
    (branchresult = "NONE" /\ branchresult' = "BRANCHED") =>
        LET nc == Len(conss)
            l == conss'[nc + 1].location
            left == MaskSet(conss'[nc + 1].forbidden)
            right == MaskSet(conss'[nc + 2].forbidden)
        IN  \A j \in Candidates(l) :
                IF CandidateNumber(lpsol, l, j) % 2 = 1
                THEN j \in left /\ j \notin right
                ELSE j \in right /\ j \notin left

C12_AlternatingCandidates == [][C12_Alternation]_vars_all

\* ------------------------------------------------------------------ C13
\* C13: when pricing runs for median m, the knapsack item list is exactly the
\* set of locations l with R[m][l] false; after m is forbidden for l the list
\* for m excludes l, and after the pair is allowed again l is back in the list.
C13_Items ==
    pricing' # pricing =>
        \A m \in pricing'.called :
            pricing'.items[m] = {l \in Locations : ~forbiddenassignments[m][l]}

C13_ItemsAreTheAllowedLocations == [][C13_Items]_vars_all

\* ------------------------------------------------------------------ C15
\* the master constraints that contain column v
RowsOf(v) ==
    {<<"service", i>> : i \in {l \in Locations : v \in probdata.serviceconss[l].vars}}
        \cup {<<"convexity", i>> : i \in {l \in Locations : v \in probdata.convconss[l].vars}}
        \cup (IF v \in probdata.mediancons.vars THEN {<<"cardinality", 0>>} ELSE {})

\* C15: every column added to the master problem is attached to exactly the
\* coverage rows of its member locations, to exactly the one convexity row of
\* its median, and to the single cardinality row, and is never detached.
C15_ColumnAttachment ==
    \A v \in 1 .. Len(vars) :
        RowsOf(v) = {<<"service", i>> : i \in vars[v].locations}
                        \cup {<<"convexity", vars[v].median>>}
                        \cup {<<"cardinality", 0>>}

\* ------------------------------------------------------------------ C16
\* the sum of the distances from the members of a cluster to its median
RECURSIVE ServiceCost(_, _)
ServiceCost(median, locations) ==
    IF locations = {} THEN 0
    ELSE LET l == CHOOSE w \in locations : TRUE
         IN  probdata.distances[l][median] + ServiceCost(median, locations \ {l})

\* C16: the objective cost of every column added equals the sum, over the
\* column's member locations, of distance[member][median].
C16_ColumnCost ==
    \A v \in 1 .. Len(vars) :
        vars[v].obj = ServiceCost(vars[v].median, vars[v].locations)

C19_EveryRemainingMedian ==
    pricing' # pricing =>
        \A m \in pricing'.called :
            ~pricing'.oracle[m] =>
                /\ m \in pricing'.warnings
                /\ vars' = vars
                /\ \A n \in Locations : n > m => n \in pricing'.called

C19_FailureNeverEndsTheRound == [][C19_EveryRemainingMedian]_vars_all

\* C19 (amended): when the knapsack solver fails for a median, no column is
\* added for that median, a warning is emitted, and pricing goes on to the
\* remaining medians as after a solved problem: each of them is handled unless
\* SCIPisStopped has answered TRUE before its turn, and a later median that is
\* solved still makes the result SCIP_SUCCESS.
C19_RemainingMediansUnlessStopped ==
    pricing' # pricing =>
        \A m \in pricing'.called :
            ~pricing'.oracle[m] =>
                /\ m \in pricing'.warnings
                /\ vars' = vars
                /\ \A n \in Locations :
                      (n > m /\ n < pricing'.nstop) =>
                          /\ n \in pricing'.called
                          /\ pricing'.oracle[n] => pricing'.result = "SUCCESS"

C19_FailureIsLocal == [][C19_RemainingMediansUnlessStopped]_vars_all

\* a round in which the first median failed and the last one was solved
C19_Witness ==
    /\ pricing.op # "none"
    /\ pricing.called = Locations
    /\ ~pricing.oracle[0]
    /\ pricing.oracle[NLoc - 1]
    /\ pricing.warnings = {m \in Locations : ~pricing.oracle[m]}
    /\ pricing.result = "SUCCESS"

\* ------------------------------------------------------------------ C20
\* the knapsack solver failed for every median the round handed to it
AllFailed ==
    /\ pricing.op # "none"
    /\ pricing.called # {}
    /\ \A m \in pricing.called : ~pricing.oracle[m]

\* C20 (as claimed): when the knapsack solver fails for every median in a
\* pricing round, pricing reports a failure to the engine: an error outcome,
\* not a normal return.
C20_TotalFailureIsAnError ==
    AllFailed => pricing.retcode # "SCIP_OKAY"

\* C20 (amended): when the knapsack solver fails for every median in a pricing
\* round, pricing returns normally (SCIP_OKAY) with the result SCIP_DIDNOTRUN,
\* after a warning for each median; no column is added.
C20_TotalFailureIsDidNotRun ==
    AllFailed =>
        /\ pricing.retcode = "SCIP_OKAY"
        /\ pricing.result = "DIDNOTRUN"
        /\ pricing.warnings = pricing.called
        /\ vars = <<>>

\* a round over all medians in which every knapsack problem failed
C20_Witness ==
    /\ AllFailed
    /\ pricing.called = Locations

\* ------------------------------------------------------------------ C21
\* C21: the stop signal of the engine is checked before each median is priced;
\* once stop is requested no further median's subproblem is solved in that
\* round (the medians solved are exactly those whose turn came before the
\* signal), and every column that exists stays in the problem unchanged.
C21_StopCheck ==
    pricing' # pricing =>
        /\ \A m \in Locations : m \in pricing'.called <=> m < pricing'.nstop
        /\ Len(vars') >= Len(vars)
        /\ \A v \in 1 .. Len(vars) : vars'[v] = vars[v]
        /\ probdata' = probdata

C21_CancellationOfPricing == [][C21_StopCheck]_vars_all

\* a round that was stopped after its first median and before its last one,
\* on a problem with a column
C21_Witness ==
    /\ pricing.op # "none"
    /\ pricing.nstop > 0
    /\ pricing.nstop < NLoc
    /\ pricing.called = 0 .. (pricing.nstop - 1)
    /\ Len(vars) > 0

\* ------------------------------------------------------------ C22, C23
\* the lines of a file that hold the demands and the capacities
VectorLines(file) == {k \in {NLoc + 2, NLoc + 3} : k <= Len(file.lines)}

NegativeData(file) ==
    \E k \in VectorLines(file) :
        \E j \in 1 .. Min(Len(file.lines[k]), NLoc) : file.lines[k][j] < 0

\* C22: an instance whose demand or capacity data contains a negative value is
\* rejected while loading: no problem is created, and neither pricing nor
\* branching ever runs on it.
C22_NegativeDataRejected ==
    (reader.op = "read" /\ NegativeData(reader.file)) =>
        /\ ~reader.created
        /\ probdata = NoProbData
        /\ pricing.op = "none"

\* the header yields two integers, and each of the rows of the distance matrix,
\* the demand line and the capacity line is there and yields at least NLoc
WellFormed(file) ==
    /\ Len(file.lines) >= NLoc + 3
    /\ Len(file.lines[1]) >= 2
    /\ \A k \in 2 .. (NLoc + 3) : Len(file.lines[k]) >= NLoc

\* C23: the reader creates the problem (and reports success) only if the
\* header line yields two integers and each of the n distance rows, the demand
\* line and the capacity line yields at least n integers; if any of these lines
\* is missing or too short it creates no problem, leaves the result at 'did
\* not run' and returns a read error.
C23_InstanceValidation ==
    reader.op = "read" =>
        /\ (reader.created \/ reader.result = "SUCCESS") => WellFormed(reader.file)
        /\ ~WellFormed(reader.file) =>
              /\ ~reader.created
              /\ probdata = NoProbData
              /\ reader.result = "DIDNOTRUN"
              /\ reader.retcode = "SCIP_READERROR"

\* ------------------------------------------------------------------ C24
\* C24: forbidAssignments(l, mask) makes isAssignmentForbidden(m, l) true, and
\* allowAssignments(l, mask) makes it false, for every median m whose bit is
\* set in mask, and each call leaves unchanged every entry R[m'][l'] with l'
\* different from l or with the bit of m' not set in mask.
C24_PostAndFrame ==
    call'.op \in {"forbid", "allow"} =>
        LET l == call'.location
            F == MaskSet(call'.forbidden)
        IN  /\ \A m \in F :
                  SCIPpricerCpmpIsAssignmentForbidden(forbiddenassignments', m, l)
                      = (call'.op = "forbid")
            /\ \A m \in Locations, k \in Locations :
                  (k # l \/ m \notin F) =>
                      SCIPpricerCpmpIsAssignmentForbidden(forbiddenassignments', m, k)
                          = SCIPpricerCpmpIsAssignmentForbidden(forbiddenassignments, m, k)

C24_RestrictionInterface == [][C24_PostAndFrame]_vars_all

\* an allow call has cleared a pair that was forbidden, while another median
\* of that location and a pair of another location stay forbidden
C24_Witness ==
    /\ call.op = "allow"
    /\ MaskSet(call.forbidden) \cap call.before # {}
    /\ \E m \in Locations \ MaskSet(call.forbidden) :
          forbiddenassignments[m][call.location]
    /\ \E m \in Locations, k \in Locations \ {call.location} :
          forbiddenassignments[m][k]

\* ------------------------------------------------------------------ C25
\* C25: for every location i and median j, the value assignments[i][j]
\* computed at a branching decision equals the sum of the current LP values of
\* all columns whose median is j and whose member list contains i, and is 0
\* when there is no such column.
C25_AssignmentMatrix ==
    branchresult # "NONE" =>
        \A i \in Locations, j \in Locations :
            /\ computeAssignments(vars, lpsol)[i][j] = AssignmentValue(lpsol, i, j)
            /\ (\A v \in 1 .. Len(vars) : vars[v].median # j \/ i \notin vars[v].locations)
                  => computeAssignments(vars, lpsol)[i][j] = 0

\* the rule has run on a solution in which two columns with the same median
\* share a member and both have a positive value, and some pair has no column
C25_Witness ==
    /\ branchresult # "NONE"
    /\ \E u \in 1 .. Len(vars), v \in 1 .. Len(vars) :
          /\ u < v
          /\ vars[u].median = vars[v].median
          /\ vars[u].locations \cap vars[v].locations # {}
          /\ lpsol[u] > 0
          /\ lpsol[v] > 0
    /\ \E i \in Locations, j \in Locations :
          \A v \in 1 .. Len(vars) : vars[v].median # j \/ i \notin vars[v].locations

\* ------------------------------------------------------------------ C26
\* an LP solution that satisfies the master constraints: every location is
\* covered at least once, the columns of a median sum to at most 1, and all
\* columns sum to at most p
MasterFeasible(sol) ==
    /\ \A i \in Locations :
          SumOver(sol, {v \in 1 .. Len(vars) : i \in vars[v].locations}) >= Scale
    /\ \A j \in Locations :
          SumOver(sol, {v \in 1 .. Len(vars) : vars[v].median = j}) <= Scale
    /\ SumOver(sol, 1 .. Len(vars)) <= probdata.nclusters * Scale

\* C26: for every LP solution that satisfies the master constraints and for
\* which a location is chosen for branching, every assignment value of the
\* chosen location is either fractional or zero, so the assertion at the head
\* of the median loop of performBranching never fails.
C26_Assertion ==
    (branchresult = "NONE" /\ branchresult' = "BRANCHED" /\ MasterFeasible(lpsol)) =>
        LET l == conss'[Len(conss) + 1].location
            srt == SortedOf(vars, lpsol)[l]
        IN  /\ BranchingAssertion(srt.keys, srt.ids)
            /\ \A j \in Locations :
                  IsFractional(Row(lpsol, l)[j]) \/ Row(lpsol, l)[j] = 0

C26_AssertionNeverFails == [][C26_Assertion]_vars_all

\* ------------------------------------------------------------------ C27
\* the assignment row of location l has entries in [0,1], sums to at least 1
\* and is 0 for every median already forbidden for l
CoveredRow(sol, l) ==
    /\ \A j \in Locations : Row(sol, l)[j] >= 0 /\ Row(sol, l)[j] <= Scale
    /\ SumRow(Row(sol, l), Locations) >= Scale
    /\ \A j \in Locations : forbiddenassignments[j][l] => Row(sol, l)[j] = 0

\* C27: whenever branching happens on a location whose assignment row has
\* entries in [0,1], sums to at least 1, and is 0 for every already-forbidden
\* median, the forbidden set of the left child and that of the right child are
\* each non-empty and each contains a median with strictly positive assignment
\* value for that location, so the LP solution of the parent is infeasible in
\* both children.
C27_Cut ==
    (branchresult = "NONE" /\ branchresult' = "BRANCHED") =>
        LET nc == Len(conss)
            l == conss'[nc + 1].location
            left == MaskSet(conss'[nc + 1].forbidden)
            right == MaskSet(conss'[nc + 2].forbidden)
        IN  CoveredRow(lpsol, l) =>
                /\ \E j \in left : Row(lpsol, l)[j] > 0
                /\ \E j \in right : Row(lpsol, l)[j] > 0

C27_BothChildrenCutOff == [][C27_Cut]_vars_all

\* the rule has branched on a location with such a row, and each child
\* forbids a median that the solution uses for the location
C27_Witness ==
    /\ branchresult = "BRANCHED"
    /\ Len(conss) = 2
    /\ CoveredRow(lpsol, conss[1].location)
    /\ \E j \in MaskSet(conss[1].forbidden) : Row(lpsol, conss[1].location)[j] > 0
    /\ \E j \in MaskSet(conss[2].forbidden) : Row(lpsol, conss[2].location)[j] > 0

\* ------------------------------------------------------------------ C28
\* the number of forbidden (median, location) pairs of a restriction state
NForbidden(fa) ==
    Cardinality({p \in Locations \X Locations : fa[p[1]][p[2]]})

\* the number of nodes on the active path that were made by the branching
\* rule, that is nodes that carry a restriction constraint
NBranchings == Cardinality({k \in 1 .. Len(path) : nodes[path[k]].addedconss # <<>>})

\* C28: along every root-to-node path of the search tree the number of
\* forbidden pairs in the restriction state strictly increases with each
\* branching, so no path contains more than n*n branchings.
C28_Increase ==
    \A n \in 1 .. Len(nodes) :
        (Len(path') = Len(path) + 1 /\ EnterNode(n) /\ nodes[n].addedconss # <<>>) =>
            /\ NForbidden(forbiddenassignments') > NForbidden(forbiddenassignments)
            /\ NForbidden(forbiddenassignments') >= NBranchings + 1
            /\ NBranchings + 1 <= NLoc * NLoc

C29_Range ==
    \A c \in 1 .. Len(conss) :
        conss[c].npropvars >= 0 /\ conss[c].npropvars <= Len(vars)

C29_Step ==
    /\ \A c \in 1 .. Len(conss) : conss'[c].npropvars >= conss[c].npropvars
    /\ (path' = path /\ propresult' \in {"DIDNOTFIND", "REDUCEDDOM"} /\ Propagate) =>
          \A k \in 1 .. Len(ActiveConss) :
              Cons(k).propagate =>
                  /\ conss'[ActiveConss[k]].npropvars = Len(vars)
                  /\ ~conss'[ActiveConss[k]].propagate

C29_ScannedColumnCounter == [](C29_Range) /\ [][C29_Step]_vars_all

\* a constraint that had scanned a column was activated again after a column
\* was added, and its second propagation ended without cutoff: its count went
\* from below the number of columns to the number of columns
C29_Witness ==
    /\ propresult \in {"DIDNOTFIND", "REDUCEDDOM"}
    /\ ~pending
    /\ \E k \in 1 .. Len(ActiveConss) :
          /\ scanlog[ActiveConss[k]].runs >= 2
          /\ Cons(k).npropvars = Len(vars)
          /\ Len(vars) = MaxVars
          /\ ~Cons(k).propagate
          /\ nodes[Cons(k).node].status = "fork"

\* ------------------------------------------------------------------ C30
\* an infeasible fixing: column i, not yet scanned by the k-th active
\* constraint, matches it and has the local lower bound 1
Infeasible(k, i) ==
    /\ Cons(k).propagate
    /\ i > Cons(k).npropvars
    /\ Matches(Cons(k), vars[i])
    /\ ~UbZeroOn(nodes, path, i)
    /\ LbLocalOne(i)

HasCut == \E k \in 1 .. Len(ActiveConss), i \in 1 .. Len(vars) : Infeasible(k, i)

CutK ==
    CHOOSE k \in 1 .. Len(ActiveConss) :
        /\ \E i \in 1 .. Len(vars) : Infeasible(k, i)
        /\ \A k2 \in 1 .. k - 1 : \A i \in 1 .. Len(vars) : ~Infeasible(k2, i)

CutI ==
    CHOOSE i \in 1 .. Len(vars) :
        Infeasible(CutK, i) /\ \A i2 \in 1 .. i - 1 : ~Infeasible(CutK, i2)

\* C30: a propagation call reports "did not find" when it fixed no column,
\* "reduced domain" when it fixed at least one column and met no infeasible
\* fixing, and "cutoff" as soon as one fixing is infeasible; after the cutoff
\* no further column and no further constraint is processed, and a
\* constraint whose propagate flag is false is skipped without any change to
\* its data or to columns.
C30_Step ==
    (path' = path /\ Propagate) =>
        LET NewlyFixed == {i \in 1 .. Len(vars) :
                              UbZeroOn(nodes', path', i) /\ ~UbZeroOn(nodes, path, i)}
        IN  /\ propresult' = IF HasCut THEN "CUTOFF"
                             ELSE IF NewlyFixed # {} THEN "REDUCEDDOM"
                             ELSE "DIDNOTFIND"
            /\ \A k \in 1 .. Len(ActiveConss) :
                  ~Cons(k).propagate =>
                      /\ conss'[ActiveConss[k]] = conss[ActiveConss[k]]
                      /\ scanlog'[ActiveConss[k]] = scanlog[ActiveConss[k]]
            /\ \A i \in NewlyFixed :
                  \E k \in 1 .. Len(ActiveConss) :
                      Cons(k).propagate /\ Matches(Cons(k), vars[i])
            /\ HasCut =>
                  /\ \A k \in CutK + 1 .. Len(ActiveConss) :
                        /\ conss'[ActiveConss[k]] = conss[ActiveConss[k]]
                        /\ scanlog'[ActiveConss[k]] = scanlog[ActiveConss[k]]
                  /\ conss'[ActiveConss[CutK]].npropvars = CutI - 1
                  /\ scanlog'[ActiveConss[CutK]].seen =
                        scanlog[ActiveConss[CutK]].seen
                            \cup (Cons(CutK).npropvars + 1 .. CutI)
                  /\ \A i \in NewlyFixed :
                        \E k \in 1 .. CutK :
                            /\ Cons(k).propagate
                            /\ Matches(Cons(k), vars[i])
                            /\ k = CutK => i < CutI

C30_PropagationResultAndCutoff == [][C30_Step]_vars_all

\* a call ended with a cutoff at the first column of the first constraint:
\* the second column was not scanned, and the second constraint, whose flag
\* was set and which matches a free column, was left as it was
C30_Witness ==
    /\ propresult = "CUTOFF"
    /\ Len(ActiveConss) = 2
    /\ Len(vars) = 2
    /\ ~Cons(1).propagate
    /\ Cons(1).npropvars = 0
    /\ scanlog[ActiveConss[1]].seen = {1}
    /\ Cons(2).propagate
    /\ scanlog[ActiveConss[2]].seen = {}
    /\ Matches(Cons(2), vars[2])
    /\ ~UbZeroOn(nodes, path, 2)
    /\ ~LbLocalOne(2)

====
